---------------------------- MODULE Spec2Model ----------------------------
(***************************************************************************)
(* BinarySeparationsGrapher: the tower specifications (TowerSpecs), the    *)
(* binary system (BinarySystem: temperature bounds, equilibrium curve) and *)
(* the McCabe-Thiele stage counter.                                        *)
(*                                                                         *)
(* Numbers.  The program computes in floating point.  The model computes   *)
(* in fixed point: mole fractions in thousandths (XS), the reflux ratio in *)
(* tenths (RS), pressures in hundredths of a mmHg (PS), boiling points in  *)
(* tenths of a kelvin.  A float division is a division rounded to the      *)
(* nearest unit (RDiv).  exp and ln are tabulated: PsatTable holds         *)
(* get_Psat at every integer temperature the program can ask for, and      *)
(* BoilingPoint10 holds get_boiling_point, for the rows of the coefficient *)
(* file named in DataSource.                                               *)
(***************************************************************************)
EXTENDS Integers, Sequences, FiniteSets, TLC

\* one mole-fraction unit is 0.001, the step the constructor itself uses
XS == 1000
\* reflux-ratio units per 1.0
RS == XS \div 100
\* pressure units per mmHg
PS == XS \div 10
\* 760 mmHg, the pressure of the system
P760 == 760 * PS

\* the not-converged value of steps_required ("N/A"), apart from every count
NA == -1
_MAX_PERMITTED_STEPS == 51
\* default_indefinite_iteration_parameters: tol = 1e-8 is below one unit
tol == 0
MaxNewton == 100

Abs(a) == IF a < 0 THEN 0 - a ELSE a

Max(a, b) == IF a < b THEN b ELSE a

\* a / b in floating point, rounded to the nearest unit (b # 0)
RDiv(a, b) ==
    LET n == IF b < 0 THEN 0 - a ELSE a
        d == Abs(b)
    IN  IF n >= 0 THEN (2 * n + d) \div (2 * d)
        ELSE 0 - ((2 * (0 - n) + d) \div (2 * d))

(***************************************************************************)
(* The coefficient file (antoineData.csv, read by FileRead): the rows      *)
(*   ethanol      18.9119  3803.98  -41.68                                 *)
(*   benzene      15.9008  2788.51  -52.36                                 *)
(*   cyclohexane  15.7527  2766.63  -50.50                                 *)
(*   heptane      15.8737  2911.32  -56.51                                 *)
(* and, for a pair of boiling points less than a kelvin apart on the two   *)
(* sides of a whole kelvin, a row that is benzene's with another C:        *)
(*   nearbenzene  15.9008  2788.51  -52.01                                 *)
(***************************************************************************)
DataSource == {"ethanol", "benzene", "cyclohexane", "heptane", "nearbenzene"}

\* first temperature of the tables
TableLow == 348

\* exp(A - B/(T + C)) in pressure units, for T = TableLow .. TableLow + 28
PsatTable ==
    [ethanol |->
       <<66088, 68814, 71633, 74547, 77561, 80676, 83895, 87220, 90655, 94202,
         97864, 101644, 105545, 109570, 113722, 118003, 122418, 126969, 131660,
         136493, 141473, 146602, 151884, 157323, 162922, 168684, 174614,
         180714, 186990>>,
     benzene |->
       <<64464, 66546, 68682, 70870, 73114, 75412, 77767, 80179, 82650, 85179,
         87769, 90419, 93132, 95908, 98747, 101652, 104622, 107660, 110766,
         113940, 117185, 120500, 123888, 127349, 130883, 134493, 138179,
         141943, 145784>>,
     cyclohexane |->
       <<63467, 65475, 67533, 69641, 71801, 74012, 76277, 78595, 80967, 83395,
         85879, 88421, 91020, 93679, 96397, 99176, 102017, 104920, 107887,
         110918, 114014, 117176, 120406, 123703, 127069, 130506, 134013,
         137592, 141243>>,
     heptane |->
       <<35996, 37246, 38531, 39851, 41207, 42599, 44028, 45496, 47002, 48547,
         50133, 51759, 53427, 55137, 56890, 58686, 60528, 62414, 64347, 66326,
         68353, 70428, 72553, 74727, 76952, 79229, 81558, 83940, 86377>>,
     nearbenzene |->
       <<65187, 67288, 69442, 71649, 73912, 76230, 78605, 81037, 83528, 86078,
         88689, 91362, 94096, 96894, 99756, 102684, 105678, 108739, 111869,
         115068, 118337, 121678, 125091, 128577, 132138, 135775, 139488,
         143278, 147148>>]

\* B / (A - ln 760) - C in tenths of a kelvin
BoilingPoint10 ==
    [ethanol |-> 3515, benzene |-> 3533, cyclohexane |-> 3539, heptane |-> 3716,
     nearbenzene |-> 3529]

VARIABLES
    \* TowerSpecs
    R, xB, xF, xD, murphree,
    \* BinarySystem
    light_chemical, heavy_chemical, antoine_coefficients, temperature_bounds,
    x, y, steps_required, feed_step,
    \* plot_McCabe_Thiele_steps: its position and its locals
    pc, currX, currY, steps, found_feed_step, effY,
    \* history: the section each step of the run resolved to
    sections,
    \* history: what each step of the run looked up: the curve xEq came from,
    \* the y it was looked up at, xEq, whether the operating line was
    \* evaluated, and the feed step before and after the step
    reads,
    \* the call of a numeric routine (solve_binary_Raoult_Relation,
    \* get_temperature_from_x, bisection_method): its arguments, its locals,
    \* its position and what it returned
    call,
    \* history: the last call, the exception it raised ("none" if it returned),
    \* and whether the TowerSpecs was built within 0 < xB < xF < xD <= 1
    lastOp, err, startedValid

towerVars == <<R, xB, xF, xD, murphree>>

systemVars == <<light_chemical, heavy_chemical, antoine_coefficients,
                temperature_bounds, x, y>>

resultVars == <<steps_required, feed_step>>

runVars == <<pc, currX, currY, steps, found_feed_step, effY, sections, reads>>

vars == <<R, xB, xF, xD, murphree, light_chemical, heavy_chemical,
          antoine_coefficients, temperature_bounds, x, y, steps_required,
          feed_step, pc, currX, currY, steps, found_feed_step, effY, sections,
          reads, call, lastOp, err, startedValid>>

Op(name, parses, val, chems) ==
    [name |-> name, parses |-> parses, val |-> val, chems |-> chems]

(***************************************************************************)
(* TowerSpecs                                                              *)
(***************************************************************************)

confirm_valid_bounding(value, lower_limit) ==
    IF value < lower_limit THEN FALSE
    ELSE IF value <= XS THEN TRUE
    ELSE FALSE

set_initial_values(default, value, lower_limit) ==
    IF confirm_valid_bounding(value, lower_limit) THEN value ELSE default

\* the fields __init__ stores
TowerSpecsInit(Rv, xBv, xFv, xDv, mv) ==
    LET b == set_initial_values(0, xBv, 0)
        f == set_initial_values(b + 1, xFv, b + 1)
        d == set_initial_values(f + 1, xDv, f + 1)
        m == set_initial_values(XS, mv, 0)
    IN  [R |-> Rv, xB |-> b, xF |-> f, xD |-> d, murphree |-> m]

\* a string given to a setter: whether float() parses it, and to what
check_valid_input(s) == IF s.parses THEN s.val ELSE 0 - XS

\* the strings a caller can type for the values V, and one float() rejects
Strings(V) ==
    {[parses |-> TRUE, val |-> v] : v \in V} \cup {[parses |-> FALSE, val |-> 0]}

\* no numeric routine has been called, or the last one is over
NoCall == [name |-> "none", at |-> "idle"]

\* no call is made while the stage counter or a numeric routine is inside its
\* loop
Callable == pc \in {"idle", "done", "raised"} /\ call.at # "loop"

\* no effective curve (effY = None)
NoCurve == [given |-> FALSE, curve |-> <<>>]

\* the locals of an earlier stage count are gone when the next call is made
ClearStage ==
    /\ pc' = "idle"
    /\ currX' = 0
    /\ currY' = 0
    /\ steps' = 0
    /\ found_feed_step' = FALSE
    /\ effY' = NoCurve
    /\ sections' = <<>>
    /\ reads' = <<>>

ClearRun ==
    /\ ClearStage
    /\ call' = NoCall

set_reflux_ratio(s) ==
    /\ Callable
    /\ R' = IF s.parses THEN s.val ELSE R
    /\ lastOp' = Op("set_reflux_ratio", s.parses, s.val, <<>>)
    /\ err' = "none"
    /\ UNCHANGED <<xB, xF, xD, murphree, systemVars, resultVars, startedValid>>
    /\ ClearRun

set_murphree_efficiency(s) ==
    /\ Callable
    /\ LET m == check_valid_input(s)
       IN  murphree' = IF confirm_valid_bounding(m, 0) THEN m ELSE murphree
    /\ lastOp' = Op("set_murphree_efficiency", s.parses, s.val, <<>>)
    /\ err' = "none"
    /\ UNCHANGED <<R, xB, xF, xD, systemVars, resultVars, startedValid>>
    /\ ClearRun

set_distillate_fraction(s) ==
    /\ Callable
    /\ LET d == check_valid_input(s)
       IN  xD' = IF confirm_valid_bounding(d, xF) THEN d ELSE xD
    /\ lastOp' = Op("set_distillate_fraction", s.parses, s.val, <<>>)
    /\ err' = "none"
    /\ UNCHANGED <<R, xB, xF, murphree, systemVars, resultVars, startedValid>>
    /\ ClearRun

set_feed_fraction(s) ==
    /\ Callable
    /\ LET f == check_valid_input(s)
       IN  xF' = IF confirm_valid_bounding(f, xB) THEN f ELSE xF
    /\ lastOp' = Op("set_feed_fraction", s.parses, s.val, <<>>)
    /\ err' = "none"
    /\ UNCHANGED <<R, xB, xD, murphree, systemVars, resultVars, startedValid>>
    /\ ClearRun

set_bottoms_fraction(s) ==
    /\ Callable
    /\ LET b == check_valid_input(s)
       IN  xB' = IF confirm_valid_bounding(b, 0) THEN b ELSE xB
    /\ lastOp' = Op("set_bottoms_fraction", s.parses, s.val, <<>>)
    /\ err' = "none"
    /\ UNCHANGED <<R, xF, xD, murphree, systemVars, resultVars, startedValid>>
    /\ ClearRun

\* 0 < xB < xF < xD <= 1
TowerInvariant(b, f, d) == 0 < b /\ b < f /\ f < d /\ d <= XS

(***************************************************************************)
(* BinarySystem: configuration                                             *)
(***************************************************************************)

\* the keys of the dictionary get_Antoine returns
get_Antoine(l, h) == {c \in DataSource : c = l \/ c = h}

get_boiling_point(chemical) == BoilingPoint10[chemical]

Floor10(t) == t \div 10

Ceil10(t) == 0 - ((0 - t) \div 10)

get_temperature_boundaries(l, h) ==
    <<Floor10(get_boiling_point(l)), Ceil10(get_boiling_point(h))>>

\* the labels and the bounds verify_correct_chemical_labels leaves
verify_correct_chemical_labels(l, h, b) ==
    IF b[2] < b[1]
    THEN [light |-> h, heavy |-> l, bounds |-> <<b[2] - 2, b[1] + 2>>]
    ELSE [light |-> l, heavy |-> h, bounds |-> b]

extend_temperature_boundaries(b) == <<b[1] - 2, b[2] + 2>>

get_Psat(chemical, T) == PsatTable[chemical][T - TableLow + 1]

\* x_new = x - f / f_p
NewtonUpdate(lightPsat, heavyPsat, xv) ==
    LET f == lightPsat * xv + heavyPsat * (XS - xv) - P760 * XS
    IN  xv - RDiv(f, lightPsat - heavyPsat)

\* (tol < err) & (counter < 100)
NewtonTest(e, counter) == tol < e /\ counter < MaxNewton

\* the Newton loop of solve_binary_Raoult_Relation, from iterate xv
RECURSIVE NewtonLoop(_, _, _, _, _)
NewtonLoop(lightPsat, heavyPsat, xv, e, counter) ==
    IF NewtonTest(e, counter)
    THEN LET x_new == NewtonUpdate(lightPsat, heavyPsat, xv)
         IN  NewtonLoop(lightPsat, heavyPsat, x_new, Abs(xv - x_new), counter + 1)
    ELSE xv

\* f / f_p divides by zero when the two pressures are equal
RaoultRaises(l, h, T) == get_Psat(l, T) = get_Psat(h, T)

solve_binary_Raoult_Relation(l, h, T) ==
    NewtonLoop(get_Psat(l, T), get_Psat(h, T), XS \div 2, XS, 1)

get_light_chemical_y(l, xv, T) == RDiv(xv * get_Psat(l, T), P760)

\* mutant: the sequences are left in ascending-temperature order
FlipNot(s) == s

\* np.flip
Flip(s) == [i \in 1..Len(s) |-> s[Len(s) + 1 - i]]

\* range(temperature_bounds[0], temperature_bounds[1]) as a sequence
Temperatures(b) == [i \in 1..Max(b[2] - b[1], 0) |-> b[1] + i - 1]

CurveRaises(l, h, b) ==
    \E i \in 1..Len(Temperatures(b)) : RaoultRaises(l, h, Temperatures(b)[i])

get_vapor_liquid_equilibrium_data(l, h, b) ==
    LET T == Temperatures(b)
        xs == [i \in 1..Len(T) |-> solve_binary_Raoult_Relation(l, h, T[i])]
        ys == [i \in 1..Len(T) |-> get_light_chemical_y(l, xs[i], T[i])]
    IN  [x |-> Flip(xs), y |-> Flip(ys)]

\* __init__: the fields it stores, and the exception that ends it if any
BinarySystemInit(l, h) ==
    LET v == verify_correct_chemical_labels(l, h, get_temperature_boundaries(l, h))
        raises == CurveRaises(v.light, v.heavy, v.bounds)
        c == IF raises THEN [x |-> <<>>, y |-> <<>>]
             ELSE get_vapor_liquid_equilibrium_data(v.light, v.heavy, v.bounds)
    IN  [light |-> v.light, heavy |-> v.heavy, antoine |-> get_Antoine(l, h),
         bounds |-> v.bounds, x |-> c.x, y |-> c.y,
         err |-> IF raises THEN "ZeroDivisionError" ELSE "none"]

\* update_binary_system, once the setter has stored the labels l and h
update_binary_system(l, h) ==
    LET v == verify_correct_chemical_labels(l, h, get_temperature_boundaries(l, h))
        b == extend_temperature_boundaries(v.bounds)
        raises == CurveRaises(v.light, v.heavy, b)
        c == IF raises THEN [x |-> x, y |-> y]
             ELSE get_vapor_liquid_equilibrium_data(v.light, v.heavy, b)
    IN  /\ antoine_coefficients' = get_Antoine(l, h)
        /\ light_chemical' = v.light
        /\ heavy_chemical' = v.heavy
        /\ temperature_bounds' = b
        /\ x' = c.x
        /\ y' = c.y
        /\ err' = IF raises THEN "ZeroDivisionError" ELSE "none"

set_light_chemical(new_chemical) ==
    /\ Callable
    /\ update_binary_system(new_chemical, heavy_chemical)
    /\ lastOp' = Op("set_light_chemical", TRUE, 0, <<new_chemical, heavy_chemical>>)
    /\ UNCHANGED <<towerVars, resultVars, startedValid>>
    /\ ClearRun

set_heavy_chemical(new_chemical) ==
    /\ Callable
    /\ update_binary_system(light_chemical, new_chemical)
    /\ lastOp' = Op("set_heavy_chemical", TRUE, 0, <<light_chemical, new_chemical>>)
    /\ UNCHANGED <<towerVars, resultVars, startedValid>>
    /\ ClearRun

set_new_chemicals(new_chemicals) ==
    /\ Callable
    /\ update_binary_system(new_chemicals[1], new_chemicals[2])
    /\ lastOp' = Op("set_new_chemicals", TRUE, 0, new_chemicals)
    /\ UNCHANGED <<towerVars, resultVars, startedValid>>
    /\ ClearRun

(***************************************************************************)
(* Operating lines and the effective curve                                 *)
(***************************************************************************)

\* R / (R + 1) and (transition_y - xB) / (xF - xB) divide by zero
OperatingLineRaises == R + RS = 0 \/ xF = xB

\* mutant: the stripping intercept is taken with the rectifying slope,
\* xB * (1 - m[0])
operating_line_parameters_wrong_intercept ==
    LET d0 == R + RS
        ty == R * xF + RS * xD
        n1 == ty - xB * d0
        d1 == d0 * (xF - xB)
    IN  [m |-> << <<R, d0>>, <<n1, d1>> >>,
         b |-> << <<RS * xD, d0>>, <<xB * (d0 - R) * (xF - xB), d1>> >>]

\* [m, b]: each slope and intercept as <<numerator, denominator>>, the two of
\* one line over the same denominator; an intercept is in mole-fraction units
get_operating_line_parameters ==
    LET d0 == R + RS
        ty == R * xF + RS * xD
        n1 == ty - xB * d0
        d1 == d0 * (xF - xB)
    IN  [m |-> << <<R, d0>>, <<n1, d1>> >>,
         b |-> << <<RS * xD, d0>>, <<xB * (d1 - n1), d1>> >>]

\* xv * m + b
Line(m, b, xv) == RDiv(m[1] * xv + b[1], m[2])

\* mutant: the rectifying test is made first
get_yOperating_rectifying_first(xv) ==
    LET p == get_operating_line_parameters
    IN  IF xB < xv THEN [y |-> Line(p.m[1], p.b[1], xv), state |-> "rectifying"]
        ELSE IF xv < xF THEN [y |-> Line(p.m[2], p.b[2], xv), state |-> "stripping"]
        ELSE [y |-> xv, state |-> "None"]

get_yOperating(xv) ==
    LET p == get_operating_line_parameters
    IN  IF xv < xF THEN [y |-> Line(p.m[2], p.b[2], xv), state |-> "stripping"]
        ELSE IF xB < xv THEN [y |-> Line(p.m[1], p.b[1], xv), state |-> "rectifying"]
        ELSE [y |-> xv, state |-> "None"]

\* get_yOperating(towerSpecs, x) called on its own: the operating line
\* parameters are computed first, whatever x is
get_yOperating_call(xv) ==
    /\ Callable
    /\ lastOp' = Op("get_yOperating", TRUE, xv, <<>>)
    /\ IF OperatingLineRaises
       THEN /\ call' = [name |-> "get_yOperating", at |-> "raised", x |-> xv,
                        yOP |-> 0, state |-> "None"]
            /\ err' = "ZeroDivisionError"
       ELSE /\ LET r == get_yOperating(xv)
               IN  call' = [name |-> "get_yOperating", at |-> "returned",
                            x |-> xv, yOP |-> r.y, state |-> r.state]
            /\ err' = "none"
    /\ ClearStage
    /\ UNCHANGED <<towerVars, systemVars, resultVars, startedValid>>

\* mutant: the effective value is not kept on or above the diagonal
effective_curve_unclamped ==
    LET p == get_operating_line_parameters
        currEffVLE(i) == IF xF < x[i] THEN Line(p.m[1], p.b[1], x[i])
                         ELSE Line(p.m[2], p.b[2], x[i])
    IN  [i \in 1..Len(x) |->
            RDiv(murphree * (y[i] - currEffVLE(i)), XS) + currEffVLE(i)]

get_effective_vapor_liquid_equilibrium_data ==
    LET p == get_operating_line_parameters
        currEffVLE(i) == IF xF < x[i] THEN Line(p.m[1], p.b[1], x[i])
                         ELSE Line(p.m[2], p.b[2], x[i])
        eff(i) == RDiv(murphree * (y[i] - currEffVLE(i)), XS) + currEffVLE(i)
    IN  [i \in 1..Len(x) |-> Max(eff(i), x[i])]

\* the index np.interp's search gives: the last sample point not above v
LastNotAbove(v, xp) ==
    CHOOSE j \in 1..Len(xp) :
        /\ xp[j] <= v
        /\ \A k \in (j + 1)..Len(xp) : xp[k] > v

\* np.interp(v, xp, fp) for Len(xp) > 0, xp increasing (or decreasing, where
\* the two end tests alone decide)
interp(v, xp, fp) ==
    LET n == Len(xp)
    IN  IF v > xp[n] THEN fp[n]
        ELSE IF v < xp[1] THEN fp[1]
        ELSE LET j == LastNotAbove(v, xp)
             IN  IF j = n \/ xp[j] = v THEN fp[j]
                 ELSE fp[j] + RDiv((fp[j + 1] - fp[j]) * (v - xp[j]),
                                   xp[j + 1] - xp[j])

(***************************************************************************)
(* The stage counter                                                       *)
(***************************************************************************)

\* update_feed_step: [found, feed_step] for a step that resolved to state
update_feed_step(state, stepsv) ==
    IF state = "stripping"
    THEN [found |-> TRUE, feed_step |-> IF stepsv = 0 THEN 1 ELSE stepsv]
    ELSE [found |-> FALSE, feed_step |-> feed_step]

\* mutant: a later stripping step overwrites the feed step
record_feed_step_overwrites(state, stepsv) == update_feed_step(state, stepsv)

\* "if not found_feed_step: found_feed_step = self.update_feed_step(...)"
record_feed_step(state, stepsv) ==
    IF ~found_feed_step THEN update_feed_step(state, stepsv)
    ELSE [found |-> found_feed_step, feed_step |-> feed_step]

Raise(e) ==
    /\ pc' = "raised"
    /\ err' = e

\* mutant: the effective curve is built and passed at full efficiency too
effective_curve_passed_always ==
    IF murphree # XS \/ ~OperatingLineRaises
    THEN [given |-> TRUE, curve |-> get_effective_vapor_liquid_equilibrium_data]
    ELSE NoCurve

\* the effY argument find_stage_counts gives to plot_McCabe_Thiele_steps
effective_curve_passed ==
    IF murphree # XS
    THEN [given |-> TRUE, curve |-> get_effective_vapor_liquid_equilibrium_data]
    ELSE NoCurve

\* find_stage_counts up to the first test of the loop of plot_McCabe_Thiele_steps
find_stage_counts ==
    /\ Callable
    /\ lastOp' = Op("find_stage_counts", TRUE, 0, <<>>)
    /\ IF murphree # XS /\ OperatingLineRaises
       THEN /\ Raise("ZeroDivisionError")
            /\ UNCHANGED <<currX, currY, steps, found_feed_step, effY, sections,
                           reads, feed_step>>
       ELSE /\ effY' = effective_curve_passed
            /\ feed_step' = 1
            /\ found_feed_step' = FALSE
            /\ currX' = xD
            /\ currY' = xD
            /\ steps' = 0
            /\ sections' = <<>>
            /\ reads' = <<>>
            /\ pc' = "loop"
            /\ err' = "none"
    /\ call' = NoCall
    /\ UNCHANGED <<towerVars, systemVars, steps_required, startedValid>>

\* mutant: the loop has no ceiling
LoopTestNoCeiling == xB < currX

LoopTest == xB < currX /\ steps < _MAX_PERMITTED_STEPS

\* one pass of the loop body
Step ==
    /\ pc = "loop"
    /\ LoopTest
    /\ steps' = steps + 1
    /\ IF Len(y) = 0
       THEN /\ Raise("ValueError")
            /\ UNCHANGED <<currX, currY, found_feed_step, feed_step, sections,
                           reads>>
       ELSE LET raw == interp(currY, y, x)
                corrected == xB < raw /\ effY.given
                xEq == IF corrected THEN interp(currY, effY.curve, x) ELSE raw
                read(line, after) ==
                    [curve |-> IF corrected THEN "effective" ELSE "raw",
                     at |-> currY, xEq |-> xEq, line |-> line,
                     before |-> feed_step, after |-> after]
            IN  IF xB < xEq
                THEN IF OperatingLineRaises
                     THEN /\ Raise("ZeroDivisionError")
                          /\ UNCHANGED <<currX, currY, found_feed_step, feed_step,
                                         sections, reads>>
                     ELSE LET op == get_yOperating(xEq)
                              u == record_feed_step(op.state, steps')
                          IN  /\ found_feed_step' = u.found
                              /\ feed_step' = u.feed_step
                              /\ sections' = Append(sections, op.state)
                              /\ reads' = Append(reads, read(TRUE, u.feed_step))
                              /\ currX' = xEq
                              /\ currY' = op.y
                              /\ UNCHANGED <<pc, err>>
                ELSE /\ sections' = Append(sections, "diagonal")
                     /\ reads' = Append(reads, read(FALSE, feed_step))
                     /\ currX' = xEq
                     /\ currY' = xEq
                     /\ UNCHANGED <<pc, err, found_feed_step, feed_step>>
    /\ UNCHANGED <<towerVars, systemVars, steps_required, effY, call, lastOp,
                   startedValid>>

\* the loop has ended: the count is stored
Finish ==
    /\ pc = "loop"
    /\ ~LoopTest
    /\ steps_required' = IF steps = _MAX_PERMITTED_STEPS THEN NA ELSE steps
    /\ pc' = "done"
    /\ UNCHANGED <<towerVars, systemVars, feed_step, currX, currY, steps,
                   found_feed_step, effY, sections, reads, call, lastOp, err,
                   startedValid>>

(***************************************************************************)
(* The numeric routines, called on their own                               *)
(***************************************************************************)

(***************************************************************************)
(* The bisection works on floats far finer than a thousandth.  Within a    *)
(* call of get_temperature_from_x a temperature of the bracket is a        *)
(* position: 0 is the low bound, Fine the high bound, so that thirty       *)
(* halvings are exact.  A value of the bracket (a mole fraction, or a      *)
(* difference of two) is a fine number [w, f]: w thousandths and f / Fine  *)
(* of a thousandth, 0 <= f < Fine.  Between two integer temperatures the   *)
(* result of solve_binary_Raoult_Relation is interpolated linearly.        *)
(***************************************************************************)
Half == 32768

Fine == Half * Half

MaxBisect == 30

Fx(w, f) == [w |-> w, f |-> f]

\* tol = 1e-8 and the initial err = 1 of default_indefinite_iteration_parameters
tolFx == Fx(0, Fine \div (100 * XS))

errFx == Fx(XS, 0)

FxSgn(a) == IF a.w < 0 THEN 0 - 1 ELSE IF a.w = 0 /\ a.f = 0 THEN 0 ELSE 1

FxNeg(a) == IF a.f = 0 THEN Fx(0 - a.w, 0) ELSE Fx(0 - a.w - 1, Fine - a.f)

FxAbs(a) == IF a.w < 0 THEN FxNeg(a) ELSE a

FxSub(a, b) ==
    IF a.f >= b.f THEN Fx(a.w - b.w, a.f - b.f)
    ELSE Fx(a.w - b.w - 1, (a.f - b.f) + Fine)

FxLess(a, b) == a.w < b.w \/ (a.w = b.w /\ a.f < b.f)

\* d * r / Fine as a fine number, for |d| < Half and 0 <= r < Fine,
\* computed in halves
MulFx(d, r) ==
    LET A == Abs(d) * (r \div Half)
        B == Abs(d) * (r % Half)
        C == A + (B \div Half)
        v == Fx(C \div Half, (C % Half) * Half + (B % Half))
    IN  IF d < 0 THEN FxNeg(v) ELSE v

\* solve_binary_Raoult_Relation(T) at the position p of [low, high]
SolveAt(l, h, low, high, p) ==
    LET W == high - low
        a == (p \div Half) * W
        b == (p % Half) * W
        c == a + (b \div Half)
        k == c \div Half
        rem == (c % Half) * Half + (b % Half)
        xk == solve_binary_Raoult_Relation(l, h, low + k)
    IN  IF rem = 0 THEN Fx(xk, 0)
        ELSE LET xk1 == solve_binary_Raoult_Relation(l, h, low + k + 1)
                 m == MulFx(xk1 - xk, rem)
             IN  Fx(xk + m.w, m.f)

\* the float (a + b) / 2 stored among the integer bounds
HalfSum(a, b) == [twice |-> a + b]

\* add_midpoint: y.append(y[1]); y[1] = (y[0] + y[2]) / 2
addMidpoint(yv) ==
    LET e == Append(yv, yv[2])
    IN  [e EXCEPT ![2] = HalfSum(e[1], e[3])]

\* the positions of the list add_midpoint leaves: its first entry is the low
\* bound, its third the high bound, every other one their midpoint
Positions(e) ==
    [i \in 1..Len(e) |-> IF i = 1 THEN 0 ELSE IF i = 3 THEN Fine ELSE Fine \div 2]

\* mutant: the right half is looked at first
bisection_right_half_first(xs, ys) ==
    IF FxSgn(ys[2]) * FxSgn(ys[3]) < 0
    THEN [raises |-> FALSE, x |-> <<xs[2], (xs[2] + xs[3]) \div 2, xs[3]>>]
    ELSE IF FxSgn(ys[1]) * FxSgn(ys[2]) < 0
    THEN [raises |-> FALSE, x |-> <<xs[1], (xs[1] + xs[2]) \div 2, xs[2]>>]
    ELSE [raises |-> TRUE, x |-> xs]

\* bisectionMethod(x, y): the list returned, or the ValueError; the sign of
\* a product is the product of the signs
bisectionMethod(xs, ys) ==
    IF FxSgn(ys[1]) * FxSgn(ys[2]) < 0
    THEN [raises |-> FALSE, x |-> <<xs[1], (xs[1] + xs[2]) \div 2, xs[2]>>]
    ELSE IF FxSgn(ys[2]) * FxSgn(ys[3]) < 0
    THEN [raises |-> FALSE, x |-> <<xs[2], (xs[2] + xs[3]) \div 2, xs[3]>>]
    ELSE [raises |-> TRUE, x |-> xs]

\* solve_binary_Raoult_Relation with the two saturation pressures P of the
\* temperature it is given, up to the first test of its loop
solve_binary_Raoult_Relation_call(P) ==
    /\ Callable
    /\ lastOp' = Op("solve_binary_Raoult_Relation", TRUE, 0, <<>>)
    /\ call' = [name |-> "solve_binary_Raoult_Relation",
                at |-> "loop",
                lightPsat |-> P[1], heavyPsat |-> P[2],
                x |-> XS \div 2, err |-> XS, counter |-> 1, updates |-> 0]
    /\ err' = "none"
    /\ ClearStage
    /\ UNCHANGED <<towerVars, systemVars, resultVars, startedValid>>

\* one pass of the body of the Newton loop
NewtonStep ==
    /\ call.name = "solve_binary_Raoult_Relation"
    /\ call.at = "loop"
    /\ NewtonTest(call.err, call.counter)
    /\ IF call.lightPsat = call.heavyPsat
       THEN /\ call' = [call EXCEPT !.at = "raised"]
            /\ err' = "ZeroDivisionError"
       ELSE /\ LET x_new == NewtonUpdate(call.lightPsat, call.heavyPsat, call.x)
               IN  call' = [call EXCEPT !.x = x_new,
                                        !.err = Abs(call.x - x_new),
                                        !.counter = @ + 1,
                                        !.updates = @ + 1]
            /\ err' = err
    /\ UNCHANGED <<towerVars, systemVars, resultVars, runVars, lastOp,
                   startedValid>>

\* the loop has ended: x is returned
NewtonReturn ==
    /\ call.name = "solve_binary_Raoult_Relation"
    /\ call.at = "loop"
    /\ ~NewtonTest(call.err, call.counter)
    /\ call' = [call EXCEPT !.at = "returned"]
    /\ UNCHANGED <<towerVars, systemVars, resultVars, runVars, lastOp, err,
                   startedValid>>

\* bisection_method(x, y) called on its own
bisection_method_call(xs, ys) ==
    /\ Callable
    /\ lastOp' = Op("bisection_method", TRUE, 0, <<>>)
    /\ LET r == bisectionMethod(xs, ys)
       IN  /\ call' = [name |-> "bisection_method",
                       at |-> IF r.raises THEN "raised" ELSE "returned",
                       given |-> xs, y |-> ys, T |-> r.x]
           /\ err' = IF r.raises THEN "ValueError" ELSE "none"
    /\ ClearStage
    /\ UNCHANGED <<towerVars, systemVars, resultVars, startedValid>>

\* (tol < err) & (counter < 30)
BisectTest(e, counter) == FxLess(tolFx, e) /\ counter < MaxBisect

\* get_temperature_from_x(xDesired), xDesired a fine number, up to the first
\* test of its loop; T is the list temperature_bounds itself, so the
\* midpoint is added to the stored bounds
get_temperature_from_x(xDesired) ==
    /\ Callable
    /\ lastOp' = Op("get_temperature_from_x", TRUE, xDesired.w, <<>>)
    /\ temperature_bounds' = addMidpoint(temperature_bounds)
    /\ call' = [name |-> "get_temperature_from_x",
                at |-> "loop",
                xDesired |-> xDesired,
                low |-> temperature_bounds'[1], high |-> temperature_bounds'[3],
                T |-> Positions(temperature_bounds'),
                err |-> errFx, counter |-> 1, reductions |-> 0,
                given |-> <<>>, y |-> <<>>]
    /\ err' = "none"
    /\ ClearStage
    /\ UNCHANGED <<towerVars, light_chemical, heavy_chemical,
                   antoine_coefficients, x, y, resultVars, startedValid>>

\* one pass of the loop body: reduce_temperature_range, err, counter
BisectStep ==
    /\ call.name = "get_temperature_from_x"
    /\ call.at = "loop"
    /\ BisectTest(call.err, call.counter)
    /\ LET ys == [i \in 1..Len(call.T) |->
                     FxSub(SolveAt(light_chemical, heavy_chemical, call.low,
                                   call.high, call.T[i]), call.xDesired)]
           r == bisectionMethod(call.T, ys)
       IN  IF r.raises
           THEN /\ call' = [call EXCEPT !.at = "raised", !.given = call.T,
                                        !.y = ys]
                /\ err' = "ValueError"
           ELSE /\ call' = [call EXCEPT !.T = r.x,
                                        !.err = FxAbs(FxSub(ys[3], ys[1])),
                                        !.counter = @ + 1,
                                        !.reductions = @ + 1,
                                        !.given = call.T,
                                        !.y = ys]
                /\ err' = err
    /\ UNCHANGED <<towerVars, systemVars, resultVars, runVars, lastOp,
                   startedValid>>

\* the loop has ended: T[1] is returned
BisectReturn ==
    /\ call.name = "get_temperature_from_x"
    /\ call.at = "loop"
    /\ ~BisectTest(call.err, call.counter)
    /\ call' = [call EXCEPT !.at = "returned"]
    /\ UNCHANGED <<towerVars, systemVars, resultVars, runVars, lastOp, err,
                   startedValid>>

(***************************************************************************)
(* Specifications                                                          *)
(***************************************************************************)

\* the numbers given to the TowerSpecs constructor and typed into the setters
FractionValues == {0 - 500, 0, 100, 400, 950, XS, 1500}

RefluxValues == {0 - RS, 0, 5, 25, 50}

\* TowerSpecs(0.5, 0.1, 0.4, 0.95, 0.3), the tower the program starts with
DefaultTower == TowerSpecsInit(5, 100, 400, 950, 300)

TowerIs(t) ==
    /\ R = t.R
    /\ xB = t.xB
    /\ xF = t.xF
    /\ xD = t.xD
    /\ murphree = t.murphree
    /\ startedValid = TowerInvariant(t.xB, t.xF, t.xD)

\* a BinarySystem right after __init__; steps_required and feed_step are the
\* class attributes
SystemIs(s) ==
    /\ light_chemical = s.light
    /\ heavy_chemical = s.heavy
    /\ antoine_coefficients = s.antoine
    /\ temperature_bounds = s.bounds
    /\ x = s.x
    /\ y = s.y
    /\ steps_required = 0
    /\ feed_step = 0
    /\ err = s.err
    /\ pc = IF s.err = "none" THEN "idle" ELSE "unbuilt"

NoRun ==
    /\ currX = 0
    /\ currY = 0
    /\ steps = 0
    /\ found_feed_step = FALSE
    /\ effY = NoCurve
    /\ sections = <<>>
    /\ reads = <<>>
    /\ call = NoCall

\* TowerSpecs alone: every constructor call, then any setters
TowerInit ==
    /\ \E Rv \in RefluxValues, b \in FractionValues, f \in FractionValues,
          d \in FractionValues, m \in FractionValues :
          TowerIs(TowerSpecsInit(Rv, b, f, d, m))
    /\ SystemIs(BinarySystemInit("ethanol", "heptane"))
    /\ NoRun
    /\ lastOp = Op("__init__", TRUE, 0, <<"ethanol", "heptane">>)

TowerNext ==
    \/ \E s \in Strings(RefluxValues) : set_reflux_ratio(s)
    \/ \E s \in Strings(FractionValues) : set_murphree_efficiency(s)
    \/ \E s \in Strings(FractionValues) : set_distillate_fraction(s)
    \/ \E s \in Strings(FractionValues) : set_feed_fraction(s)
    \/ \E s \in Strings(FractionValues) : set_bottoms_fraction(s)

SpecTower == TowerInit /\ [][TowerNext]_vars

\* BinarySystem configuration alone: every constructor call, then any setters
SystemInit ==
    /\ TowerIs(DefaultTower)
    /\ \E l \in DataSource, h \in DataSource :
          /\ SystemIs(BinarySystemInit(l, h))
          /\ lastOp = Op("__init__", TRUE, 0, <<l, h>>)
    /\ NoRun

SystemNext ==
    \/ \E c \in DataSource : set_light_chemical(c)
    \/ \E c \in DataSource : set_heavy_chemical(c)
    \/ \E l \in DataSource, h \in DataSource : set_new_chemicals(<<l, h>>)

SpecSystem == SystemInit /\ [][SystemNext]_vars

\* the program: a TowerSpecs and a BinarySystem are built, then setters and
\* stage counts in any order
StageTowers ==
    {DefaultTower,
     TowerSpecsInit(50, 100, 400, 999, 300),
     TowerSpecsInit(25, 100, 400, 950, 950),
     TowerSpecsInit(25, 100, 400, 950, 0),
     TowerSpecsInit(25, 100, 400, 950, XS),
     TowerSpecsInit(50, 5, 400, 950, 950),
     TowerSpecsInit(25, 5, 50, 950, 950)}

StageFractions == {100}

StageReflux == {50}

StageEfficiencies == {XS}

\* the x values get_yOperating is asked for on its own
StageProbes == {0, 100, 250, 400, 950}

StagePairs == {<<"ethanol", "heptane">>, <<"heptane", "benzene">>}

Init ==
    /\ \E t \in StageTowers : TowerIs(t)
    /\ \E p \in StagePairs :
          /\ SystemIs(BinarySystemInit(p[1], p[2]))
          /\ lastOp = Op("__init__", TRUE, 0, p)
    /\ NoRun

Next ==
    \/ \E s \in Strings(StageReflux) : set_reflux_ratio(s)
    \/ \E s \in Strings(StageEfficiencies) : set_murphree_efficiency(s)
    \/ \E s \in Strings(StageFractions) : set_distillate_fraction(s)
    \/ \E s \in Strings(StageFractions) : set_feed_fraction(s)
    \/ \E s \in Strings(StageFractions) : set_bottoms_fraction(s)
    \/ \E p \in StagePairs : set_new_chemicals(p)
    \/ \E xv \in StageProbes : get_yOperating_call(xv)
    \/ find_stage_counts
    \/ Step
    \/ Finish

Spec == Init /\ [][Next]_vars

\* the numeric routines called on a configured BinarySystem
SolverPairs ==
    {<<"ethanol", "heptane">>, <<"benzene", "cyclohexane">>,
     <<"cyclohexane", "benzene">>}

\* the high bound: the second entry of the stored list, the third once
\* add_midpoint has put the midpoint before it
BoundsHigh == temperature_bounds[IF Len(temperature_bounds) = 2 THEN 2 ELSE 3]

\* the saturation pressures of the pair at the integer temperatures of its
\* bounds
BoundsPressures ==
    {<<get_Psat(light_chemical, T), get_Psat(heavy_chemical, T)>> :
        T \in temperature_bounds[1]..BoundsHigh}

\* pairs of pressures a hundredth of a mmHg or so from each other and from
\* 760 mmHg, as two rows of the coefficient file give near the temperature
\* where their curves cross
NearlyEqualPressures ==
    {<<P760 + a, P760 + b>> : a \in {0 - 1, 15, 16}, b \in {0 - 1, 0, 1}}

\* the fractions asked of get_temperature_from_x: 0.5, 0.9, one that no
\* temperature of the bounds gives, and the one the midpoint gives
BisectTargets ==
    {Fx(XS \div 2, 0), Fx(9 * (XS \div 10), 0), Fx(3 * XS, 0),
     SolveAt(light_chemical, heavy_chemical, temperature_bounds[1], BoundsHigh,
             Fine \div 2)}

\* the stored list grows by one entry with every call
MaxBoundsLen == 4

\* the lists given to bisection_method on its own
DirectBrackets == {<<0, 8, 16>>, <<0, 4, 16>>}

DirectValues == {Fx(0 - 3, 0), Fx(0, 0), Fx(0, 5)}

SolverInit ==
    /\ TowerIs(DefaultTower)
    /\ \E p \in SolverPairs :
          /\ SystemIs(BinarySystemInit(p[1], p[2]))
          /\ lastOp = Op("__init__", TRUE, 0, p)
    /\ NoRun

SolverNext ==
    \/ \E p \in SolverPairs : set_new_chemicals(p)
    \/ \E P \in BoundsPressures \cup NearlyEqualPressures :
          solve_binary_Raoult_Relation_call(P)
    \/ NewtonStep
    \/ NewtonReturn
    \/ \E xs \in DirectBrackets, y0 \in DirectValues, y1 \in DirectValues,
          y2 \in DirectValues : bisection_method_call(xs, <<y0, y1, y2>>)
    \/ \E xDesired \in BisectTargets :
          /\ Len(temperature_bounds) < MaxBoundsLen
          /\ get_temperature_from_x(xDesired)
    \/ BisectStep
    \/ BisectReturn

SpecSolver == SolverInit /\ [][SolverNext]_vars

(***************************************************************************)
(* Claims                                                                  *)
(***************************************************************************)

TowerSetters ==
    {"set_reflux_ratio", "set_murphree_efficiency", "set_distillate_fraction",
     "set_feed_fraction", "set_bottoms_fraction"}

Configurations ==
    {"__init__", "set_light_chemical", "set_heavy_chemical", "set_new_chemicals"}

\* C1: a TowerSpecs built within 0 < xB < xF < xD <= 1 stays within it under
\* any sequence of setter calls.
C1_SettersKeepInvariant == startedValid => TowerInvariant(xB, xF, xD)

\* C2: whatever the constructor is given, the TowerSpecs it builds has
\* 0 < xB < xF < xD <= 1.
C2_ConstructorInvariant ==
    lastOp.name = "__init__" => TowerInvariant(xB, xF, xD)

\* the call op, made in the current state, has an argument float() rejects or
\* one that would take the TowerSpecs out of its invariant
InvalidUpdate(op) ==
    \/ ~op.parses
    \/ op.name = "set_bottoms_fraction" /\ ~TowerInvariant(op.val, xF, xD)
    \/ op.name = "set_feed_fraction" /\ ~TowerInvariant(xB, op.val, xD)
    \/ op.name = "set_distillate_fraction" /\ ~TowerInvariant(xB, xF, op.val)
    \/ op.name = "set_murphree_efficiency" /\ ~(0 < op.val /\ op.val <= XS)
    \/ op.name = "set_reflux_ratio" /\ ~(0 < op.val)

\* C3: a setter call with an unparsable or invariant-breaking argument raises
\* nothing and leaves R, xB, xF, xD and murphree as they were.
C3_InvalidUpdateRejected ==
    [][(lastOp'.name \in TowerSetters /\ InvalidUpdate(lastOp'))
          => (UNCHANGED towerVars /\ err' = "none")]_vars

\* C4: in every TowerSpecs state, R > 0 and 0 < murphree <= 1.
C4_RefluxAndEfficiencyRanges == R > 0 /\ 0 < murphree /\ murphree <= XS

\* C5: the count is "N/A" exactly when the ceiling was reached with currX
\* still above xB; every other run reports the steps counter.
C5_SentinelOnlyWithoutCrossing ==
    pc = "done" =>
        /\ (steps_required = NA) <=> (steps = _MAX_PERMITTED_STEPS /\ xB < currX)
        /\ steps_required # NA => steps_required = steps

\* the first step of s that resolved to the stripping section, 1 if none did
FirstStripping(s) ==
    IF \E i \in 1..Len(s) : s[i] = "stripping"
    THEN CHOOSE i \in 1..Len(s) :
             /\ s[i] = "stripping"
             /\ \A k \in 1..(i - 1) : s[k] # "stripping"
    ELSE 1

\* C6: throughout a stage count and after it, feed_step is the 1-based index
\* of the first step that resolved to the stripping section (later steps
\* never overwrite it), and 1 while no step has.
C6_FeedStepIsFirstStripping ==
    pc \in {"loop", "done"} => feed_step = FirstStripping(sections)

\* C6 witness: a finished count whose feed step is past the first step and is
\* followed by further stripping steps
C6_Witness ==
    /\ pc = "done"
    /\ feed_step > 1
    /\ sections[feed_step] = "stripping"
    /\ \E i \in (feed_step + 1)..Len(sections) : sections[i] = "stripping"

\* C7: for every reachable TowerSpecs and every configured pair, the
\* operating line, the equilibrium solve, the effective curve and the stage
\* count raise nothing.
C7_NothingRaises == err = "none"

\* C8: two distinct chemicals given in reversed boiling-point order are
\* swapped and leave low < high, so the chemical labelled light never has
\* the higher boiling point.
C8_ReversedPairIsSwapped ==
    (lastOp.name \in Configurations /\ lastOp.chems[1] # lastOp.chems[2]) =>
        /\ get_boiling_point(lastOp.chems[1]) > get_boiling_point(lastOp.chems[2])
              => /\ light_chemical = lastOp.chems[2]
                 /\ heavy_chemical = lastOp.chems[1]
                 /\ temperature_bounds[1] < temperature_bounds[2]
        /\ get_boiling_point(light_chemical) <= get_boiling_point(heavy_chemical)

\* C9: on every configuration path the bounds are padded exactly once, so a
\* correctly ordered pair ends with [floor(bp(light)) - 2, ceil(bp(heavy)) + 2].
C9_PaddedOnceOnEveryPath ==
    (/\ lastOp.name \in Configurations
     /\ get_boiling_point(lastOp.chems[1]) < get_boiling_point(lastOp.chems[2]))
        => temperature_bounds =
               <<Floor10(get_boiling_point(lastOp.chems[1])) - 2,
                 Ceil10(get_boiling_point(lastOp.chems[2])) + 2>>

OperatingValue(xv) ==
    LET d0 == R + RS
        ty == R * xF + RS * xD
    IN  IF xv > xF THEN RDiv(R * xv + RS * xD, d0)
        ELSE RDiv((ty - xB * d0) * (xv - xB), d0 * (xF - xB)) + xB

\* C11: every value of the effective curve is on or above the diagonal, and
\* is max(murphree * (y - yOperating) + yOperating, x) at its point (x, y).
C11_EffectiveCurveClamped ==
    (pc \in {"loop", "done"} /\ effY.given) =>
        /\ Len(effY.curve) = Len(x)
        /\ \A i \in 1..Len(x) :
               LET yOp == OperatingValue(x[i])
               IN  /\ effY.curve[i] >= x[i]
                   /\ effY.curve[i] =
                          Max(RDiv(murphree * (y[i] - yOp), XS) + yOp, x[i])

\* C11 witness: an effective curve built with a small efficiency that has a
\* point where the operating line is above y, a point the clamp raised to
\* the diagonal, and a point left above it
C11_Witness ==
    /\ pc = "loop"
    /\ effY.given
    /\ murphree < XS \div 2
    /\ \E i \in 1..Len(x) : OperatingValue(x[i]) > y[i]
    /\ \E i \in 1..Len(x) :
           LET yOp == OperatingValue(x[i])
           IN  /\ RDiv(murphree * (y[i] - yOp), XS) + yOp < x[i]
               /\ effY.curve[i] = x[i]
    /\ \E i \in 1..Len(x) : effY.curve[i] > x[i]

\* the value m * xv + b of a line as <<numerator, denominator>>
LineValue(m, b, xv) == <<m[1] * xv + b[1], m[2]>>

\* p = q for two fractions, the denominator of q a multiple of that of p
SameValue(p, q) == q[2] % p[2] = 0 /\ p[1] * (q[2] \div p[2]) = q[1]

\* C12: whenever xB < xF (and the lines exist), the rectifying and the
\* stripping line have the same value at x = xF, and the stripping line
\* passes through (xB, xB).
C12_OperatingLinesMeetAtFeed ==
    (xB < xF /\ ~OperatingLineRaises) =>
        LET p == get_operating_line_parameters
            atFeed == LineValue(p.m[2], p.b[2], xF)
            atBottoms == LineValue(p.m[2], p.b[2], xB)
        IN  /\ SameValue(LineValue(p.m[1], p.b[1], xF), atFeed)
            /\ Line(p.m[1], p.b[1], xF) = Line(p.m[2], p.b[2], xF)
            /\ atBottoms[1] = xB * atBottoms[2]
            /\ Line(p.m[2], p.b[2], xB) = xB

\* C12 witness: a tower a setter has changed, with xB < xF and two lines of
\* different slopes
C12_Witness ==
    /\ lastOp.name \in TowerSetters
    /\ 0 < xB /\ xB < xF /\ xF < xD
    /\ R > 0
    /\ LET p == get_operating_line_parameters
       IN  p.m[1][1] * p.m[2][2] # p.m[2][1] * p.m[1][2]

\* C13: the stored curve is non-decreasing in both coordinates across the
\* index range, whatever pair and bounds it was built for.
C13_CurveNonDecreasing ==
    (lastOp.name \in Configurations /\ err = "none") =>
        \A i \in 1..(Len(x) - 1) : x[i] <= x[i + 1] /\ y[i] <= y[i + 1]

\* C14: in every state of a BinarySystem, from construction on, the feed
\* step is an integer >= 1 and the step count is an integer or "N/A".
C14_ResultAlwaysWellFormed ==
    /\ feed_step \in Nat /\ feed_step >= 1
    /\ steps_required = NA \/ steps_required \in Nat

\* C15: the stage count starts at (xD, xD) with no step taken, every
\* iteration adds exactly one to steps, there are never more than 51, the
\* loop cannot go on at 51, and when it has ended either currX <= xB or
\* steps = 51.
C15_LoopBoundedAndExitCondition ==
    /\ (pc = "loop" /\ steps = 0) => (currX = xD /\ currY = xD)
    /\ pc \in {"loop", "done"} =>
           /\ steps = Len(sections)
           /\ steps <= _MAX_PERMITTED_STEPS
    /\ (pc = "loop" /\ steps = _MAX_PERMITTED_STEPS) => ~ENABLED Step
    /\ pc = "done" => (currX <= xB \/ steps = _MAX_PERMITTED_STEPS)

\* C15 witness: a count the ceiling ended, currX still above xB
C15_Witness ==
    /\ pc = "done"
    /\ steps = _MAX_PERMITTED_STEPS
    /\ Len(sections) = _MAX_PERMITTED_STEPS
    /\ xB < currX

\* C16: the Newton solve starts from x = 0.5 and makes updates until the
\* change is within the tolerance or 100 updates have been made; it returns
\* the last iterate and raises nothing when the tolerance is never met.
C16_NewtonStopsAtTolOrHundred ==
    call.name = "solve_binary_Raoult_Relation" =>
        /\ call.updates = 0 => call.x = XS \div 2
        /\ call.updates <= MaxNewton
        /\ call.at = "returned" =>
               (call.err <= tol \/ call.updates = MaxNewton)
        /\ (call.at = "raised") => (call.lightPsat = call.heavyPsat)

RECURSIVE Pow2(_)
Pow2(n) == IF n = 0 THEN 1 ELSE 2 * Pow2(n - 1)

\* C17: the bisection for a temperature takes the midpoint once before its
\* loop, halves the bracket [low, midpoint, high] at every reduction, goes
\* on until |f(left) - f(right)| is within the tolerance or 30 reductions
\* have been made, and returns the midpoint of the last bracket.
C17_BisectionStopsAtTolOrThirty ==
    call.name = "get_temperature_from_x" =>
        /\ call.reductions <= MaxBisect
        /\ (call.T[3] - call.T[1]) * Pow2(call.reductions) = Fine
        /\ 2 * call.T[2] = call.T[1] + call.T[3]
        /\ call.at = "returned" =>
               (~FxLess(tolFx, call.err) \/ call.reductions = MaxBisect)

\* a and b have opposite signs
OppositeSigns(a, b) ==
    \/ FxLess(a, Fx(0, 0)) /\ FxLess(Fx(0, 0), b)
    \/ FxLess(b, Fx(0, 0)) /\ FxLess(Fx(0, 0), a)

\* C18: a bisection step on [x0, x1, x2] with values [y0, y1, y2] gives
\* [x0, (x0 + x1) / 2, x1] when y0 and y1 have opposite signs, otherwise
\* [x1, (x1 + x2) / 2, x2] when y1 and y2 have, and raises exactly when
\* neither half has a sign change.
C18_BisectionStep ==
    (call.name \in {"bisection_method", "get_temperature_from_x"}
         /\ Len(call.given) > 0) =>
        LET xs == call.given
            left == OppositeSigns(call.y[1], call.y[2])
            right == OppositeSigns(call.y[2], call.y[3])
        IN  /\ left =>
                   /\ call.at # "raised"
                   /\ Len(call.T) = 3
                   /\ call.T[1] = xs[1] /\ call.T[3] = xs[2]
                   /\ 2 * call.T[2] = xs[1] + xs[2]
            /\ (~left /\ right) =>
                   /\ call.at # "raised"
                   /\ Len(call.T) = 3
                   /\ call.T[1] = xs[2] /\ call.T[3] = xs[3]
                   /\ 2 * call.T[2] = xs[2] + xs[3]
            /\ (call.at = "raised") <=> (~left /\ ~right)

\* C18 witness: a step on a bracket with a sign change in both halves, which
\* took the left one
C18_Witness ==
    /\ call.name = "bisection_method"
    /\ call.at = "returned"
    /\ OppositeSigns(call.y[1], call.y[2])
    /\ OppositeSigns(call.y[2], call.y[3])
    /\ call.given[2] # call.given[3]
    /\ call.T[3] = call.given[2]
\* C19: a stage count at murphree = 1 is given no effective curve and every
\* one of its steps takes xEq from the raw equilibrium curve; at any other
\* murphree the stepping loop is given the effective curve of the current
\* TowerSpecs
C19_EffectiveCurveOnlyBelowFullEfficiency ==
    pc \in {"loop", "done"} =>
        /\ murphree = XS =>
               /\ ~effY.given
               /\ \A i \in 1..Len(reads) :
                      /\ reads[i].curve = "raw"
                      /\ reads[i].xEq = interp(reads[i].at, y, x)
        /\ murphree # XS =>
               effY = [given |-> TRUE,
                       curve |-> get_effective_vapor_liquid_equilibrium_data]

\* a finished count of several steps at murphree = 1
C19_Witness ==
    /\ pc = "done"
    /\ murphree = XS
    /\ Len(reads) >= 2
    /\ steps_required = Len(reads)

\* C20: in a stage count that was given an effective curve, every step that
\* left currX above xB took its xEq from the effective curve, and a step that
\* brought currX to or below xB took its xEq from the raw equilibrium curve,
\* dropped to the diagonal without evaluating the operating line, and left the
\* feed step as it was
C20_CorrectionOnAllButTerminalStep ==
    (pc \in {"loop", "done"} /\ effY.given) =>
        \A i \in 1..Len(reads) :
            IF xB < reads[i].xEq
            THEN /\ reads[i].curve = "effective"
                 /\ reads[i].xEq = interp(reads[i].at, effY.curve, x)
            ELSE /\ reads[i].curve = "raw"
                 /\ reads[i].xEq = interp(reads[i].at, y, x)
                 /\ ~reads[i].line
                 /\ sections[i] = "diagonal"
                 /\ reads[i].after = reads[i].before
                 /\ i = Len(reads)
                 /\ currX = reads[i].xEq
                 /\ currY = reads[i].xEq

C22_BoundsStrictlyOrdered ==
    pc # "unbuilt" => temperature_bounds[1] < temperature_bounds[2]

\* C23: get_temperature_from_x is a pure query: no step of a call changes
\* the stored temperature bounds, which stay the two-element [low, high]
\* pair, or the stored x and y curve.
C23_TemperatureQueryIsPure ==
    [][call'.name = "get_temperature_from_x" =>
           /\ temperature_bounds' = temperature_bounds
           /\ Len(temperature_bounds') = 2
           /\ x' = x
           /\ y' = y]_vars

\* C24: a bisection step on a bracket whose two outer values have strictly
\* opposite signs does not fail, whatever the value at the midpoint is,
\* zero included.
C24_BracketWithRootDoesNotFail ==
    (call.name \in {"bisection_method", "get_temperature_from_x"}
         /\ Len(call.given) > 0
         /\ OppositeSigns(call.y[1], call.y[3])) =>
        call.at # "raised"

\* C25: after every stage count that reports a number, on any TowerSpecs the
\* constructor and the setters reach, 1 <= feed_step <= steps_required.
C25_FeedStepWithinCount ==
    (pc = "done" /\ steps_required # NA) =>
        /\ 1 <= feed_step
        /\ feed_step <= steps_required

=============================================================================
